---- MODULE Spec2Model ----
(***************************************************************************)
(* Address validation / reverse geocoding server of Guram-LM/location      *)
(* (src/front/src/App.tsx, the express part, lines 279-508).               *)
(*                                                                         *)
(* JavaScript strings are sequences of one-character strings.  An optional *)
(* value (a key that may be missing from a JSON body, `undefined`) is a    *)
(* sequence of length 0 (missing) or 1 (present).                          *)
(***************************************************************************)
EXTENDS Integers, Sequences, FiniteSets, TLC

(* ------------------------------ bounds -------------------------------- *)
\* number of request slots (requests the server handles, possibly at once)
NReq == 2
\* how many times the clock advances
MaxTicks == 2
\* longest formatted_address enumerated character by character
MaxLen == 5
\* longest candidate list enumerated for the precision ranking
MaxResults == 3

(* ------------------------- optional values ---------------------------- *)
None == <<>>
Some(x) == <<x>>
IsSome(o) == Len(o) > 0

(* ------------------------------ strings ------------------------------- *)
Digits == {"0", "1", "2", "3", "4", "5", "6", "7", "8", "9"}
LowerLetters == {"a", "b", "c", "d", "e", "f", "g", "h", "i", "j", "k", "l", "m",
                 "n", "o", "p", "q", "r", "s", "t", "u", "v", "w", "x", "y", "z"}
UpperToLower == [A |-> "a", B |-> "b", C |-> "c", D |-> "d", E |-> "e", F |-> "f",
                 G |-> "g", H |-> "h", I |-> "i", J |-> "j", K |-> "k", L |-> "l",
                 M |-> "m", N |-> "n", O |-> "o", P |-> "p", Q |-> "q", R |-> "r",
                 S |-> "s", T |-> "t", U |-> "u", V |-> "v", W |-> "w", X |-> "x",
                 Y |-> "y", Z |-> "z"]
UpperLetters == DOMAIN UpperToLower
\* what \s and String.prototype.trim treat as white space (of the characters used)
WhiteSpace == {" "}

IsDigit(c) == c \in Digits
IsLetter(c) == c \in LowerLetters \/ c \in UpperLetters
IsSpace(c) == c \in WhiteSpace

Concat(ss) ==
  LET RECURSIVE cat(_)
      cat(i) == IF i > Len(ss) THEN <<>> ELSE ss[i] \o cat(i + 1)
  IN cat(1)

\* String.prototype.trim
Trim(s) ==
  LET keep == {i \in 1..Len(s) : ~IsSpace(s[i])}
  IN IF keep = {} THEN <<>>
     ELSE LET lo == CHOOSE i \in keep : \A j \in keep : i <= j
              hi == CHOOSE i \in keep : \A j \in keep : j <= i
          IN SubSeq(s, lo, hi)

\* String.prototype.toLowerCase
ToLowerCase(s) == [i \in 1..Len(s) |-> IF s[i] \in UpperLetters THEN UpperToLower[s[i]] ELSE s[i]]

\* String.prototype.replace(/[^a-z0-9]/g, "")
StripNonAlnum(s) == SelectSeq(s, LAMBDA c : c \in LowerLetters \/ c \in Digits)

\* String.prototype.includes
Includes(hay, needle) ==
  \E i \in 0..(Len(hay) - Len(needle)) : SubSeq(hay, i + 1, i + Len(needle)) = needle

\* String.prototype.split(sep) for a one-character separator
Split(s, sep) ==
  LET RECURSIVE parts(_, _)
      parts(from, i) ==
        IF i > Len(s) THEN <<SubSeq(s, from, Len(s))>>
        ELSE IF s[i] = sep THEN <<SubSeq(s, from, i - 1)>> \o parts(i + 1, i + 1)
        ELSE parts(from, i + 1)
  IN parts(1, 1)

\* const normalize = (str) => str.toLowerCase().trim().replace(/[^a-z0-9]/g, "")
normalize(str) == StripNonAlnum(Trim(ToLowerCase(str)))

(* --------------------------- field values ----------------------------- *)
\* JavaScript truthiness of a string and of a number
TruthyStr(s) == Len(s) > 0
TruthyNum(n) == n # 0
\* a || b on strings
OrStr(a, b) == IF TruthyStr(a) THEN a ELSE b

Fields == {"country", "city", "street", "number"}

\* const errorMessages = { ka: {...}, en: {...} }: a message is the pair of
\* its table and its key (the localized text itself is not modelled)
MessageIds == {"required", "invalidCountry", "invalidCity", "invalidStreet",
               "invalidNumber", "addressNotFound", "partialMatch", "notRooftop"}
errorMessages == [ka |-> [id \in MessageIds |-> <<"ka", id>>],
                  en |-> [id \in MessageIds |-> <<"en", id>>]]
LangKa == <<"k", "a">>
LangEn == <<"e", "n">>
\* errorMessages[lang] || errorMessages.ka
Messages(lang) == IF lang = LangEn THEN errorMessages.en ELSE errorMessages.ka
\* `lang = "ka"` in the destructuring of req.body
LangOf(body) == IF IsSome(body.lang) THEN body.lang[1] ELSE LangKa

\* an errors object: field -> message, <<>> where the key is not set
NoMsg == <<>>
\* Object.keys(errors)
ErrorKeys(errors) == {f \in Fields : errors[f] # NoMsg}

(* ------------------------ provider components ------------------------- *)
\* components.find(c => types.some(t => c.types.includes(t)))
findComponent(components, types) ==
  LET hits == {i \in 1..Len(components) : components[i].types \cap types # {}}
  IN IF hits = {} THEN None
     ELSE Some(components[CHOOSE i \in hits : \A j \in hits : i <= j])

(* --------------------------- /validate -------------------------------- *)
\* a variant that forgets to trim
Blank_NoTrim(field) == ~IsSome(field) \/ ~TruthyStr(field[1])

\* !field?.trim(): the key is missing, or nothing is left after trimming
Blank(field) == ~IsSome(field) \/ ~TruthyStr(Trim(field[1]))

\* lines 338-341
RequiredErrors(body, msg) ==
  [f \in Fields |-> IF Blank(body[f]) THEN msg.required ELSE NoMsg]

\* a variant that negates the test of the result list
NoUsableResult_Negated(data) ==
  data.status # "OK" \/ (IsSome(data.results) /\ Len(data.results[1]) > 0)

\* data.status !== "OK" || !data.results?.length
NoUsableResult(data) ==
  data.status # "OK" \/ ~IsSome(data.results) \/ Len(data.results[1]) = 0

\* a variant that also accepts an input that contains the component
LongNameMismatch_EitherWay(comp, input) ==
  \/ ~IsSome(comp)
  \/ /\ ~Includes(normalize(comp[1].long_name), normalize(input))
     /\ ~Includes(normalize(input), normalize(comp[1].long_name))

\* !comp || !normalize(comp.long_name).includes(normalize(input))
LongNameMismatch(comp, input) ==
  ~IsSome(comp) \/ ~Includes(normalize(comp[1].long_name), normalize(input))

\* lines 370-372: the country also matches on the short name
CountryMismatch(comp, input) ==
  \/ ~IsSome(comp)
  \/ /\ ~Includes(normalize(comp[1].long_name), normalize(input))
     /\ ~Includes(normalize(comp[1].short_name), normalize(input))

\* lines 362-386: the errors object after the comparison with results[0]
FieldErrors(body, result, msg) ==
  LET components == result.address_components
      countryComp == findComponent(components, {"country"})
      cityComp == findComponent(components, {"locality", "administrative_area_level_2",
                                             "administrative_area_level_1"})
      streetComp == findComponent(components, {"route", "street_address"})
      numberComp == findComponent(components, {"street_number", "premise"})
  IN [f \in Fields |->
        CASE f = "country" -> IF CountryMismatch(countryComp, body.country[1])
                              THEN msg.invalidCountry ELSE NoMsg
          [] f = "city" -> IF LongNameMismatch(cityComp, body.city[1])
                           THEN msg.invalidCity ELSE NoMsg
          [] f = "street" -> IF LongNameMismatch(streetComp, body.street[1])
                             THEN msg.invalidStreet ELSE NoMsg
          [] f = "number" -> IF LongNameMismatch(numberComp, body.number[1])
                             THEN msg.invalidNumber ELSE NoMsg]

\* truthiness of result.partial_match (the key may be missing)
PartialMatch(result) == IsSome(result.partial_match) /\ result.partial_match[1]

isRooftop(result) == result.location_type = "ROOFTOP"
isStreetAddress(result) == "street_address" \in result.types \/ "premise" \in result.types
noPartial(result) == ~PartialMatch(result)

\* a variant that forgets the precision
Valid_AnyPrecision(errors, result) ==
  ErrorKeys(errors) = {} /\ isStreetAddress(result) /\ noPartial(result)

\* line 392
Valid(errors, result) ==
  ErrorKeys(errors) = {} /\ isRooftop(result) /\ isStreetAddress(result) /\ noPartial(result)

\* a variant that always sends the errors object
Verdict_AlwaysErrors(errors, result) ==
  [status |-> 200,
   body |-> [valid |-> Valid(errors, result),
             formatted_address |-> result.formatted_address,
             errors |-> errors,
             geometry_type |-> result.location_type,
             partial |-> PartialMatch(result),
             types |-> result.types]]

\* lines 394-401; `errors` is undefined, so left out of the JSON, when empty
Verdict(errors, result) ==
  LET common == [valid |-> Valid(errors, result),
                 formatted_address |-> result.formatted_address,
                 geometry_type |-> result.location_type,
                 partial |-> PartialMatch(result),
                 types |-> result.types]
  IN IF ErrorKeys(errors) # {}
     THEN [status |-> 200, body |-> common @@ [errors |-> errors]]
     ELSE [status |-> 200, body |-> common]

\* line 344
RequiredResponse(errors) == [status |-> 400, body |-> [valid |-> FALSE, errors |-> errors]]
\* line 359
NotFoundVerdict(msg) == [status |-> 200, body |-> [valid |-> FALSE, message |-> msg.addressNotFound]]

(* ------------------------- /reverse-geocode --------------------------- *)
\* String(n) of a non-negative integer, as a template literal prints it
NumToStr(n) ==
  LET digit(d) == <<"0", "1", "2", "3", "4", "5", "6", "7", "8", "9">>[d + 1]
      RECURSIVE str(_)
      str(m) == IF m < 10 THEN <<digit(m)>> ELSE str(m \div 10) \o <<digit(m % 10)>>
  IN str(n)

\* `${x}` of a coordinate that may be missing from the body
CoordToStr(c) == IF IsSome(c) THEN NumToStr(c[1])
                 ELSE <<"u", "n", "d", "e", "f", "i", "n", "e", "d">>

\* a variant that leaves the language out of the key
cacheKey_NoLang(body) ==
  Concat(<< <<"r", "e", "v", "_">>, CoordToStr(body.latitude), <<"_">>,
            CoordToStr(body.longitude) >>)

\* const cacheKey = `rev_${latitude}_${longitude}_${lang}`
cacheKey(body) ==
  Concat(<< <<"r", "e", "v", "_">>, CoordToStr(body.latitude), <<"_">>,
            CoordToStr(body.longitude), <<"_">>, LangOf(body) >>)

\* !latitude || !longitude
MissingCoordinates(body) ==
  \/ ~IsSome(body.latitude) \/ ~TruthyNum(body.latitude[1])
  \/ ~IsSome(body.longitude) \/ ~TruthyNum(body.longitude[1])

\* const order = [...]; order.indexOf(x) (0-based, -1 when not found)
order == <<"ROOFTOP", "RANGE_INTERPOLATED", "GEOMETRIC_CENTER", "APPROXIMATE">>
IndexOf(seq, x) ==
  LET hits == {i \in 1..Len(seq) : seq[i] = x}
  IN IF hits = {} THEN -1 ELSE (CHOOSE i \in hits : \A j \in hits : i <= j) - 1

\* the comparator of line 431
ComparePrecision(a, b) == IndexOf(order, a.location_type) - IndexOf(order, b.location_type)

\* a variant that takes the candidates as they come
SortByPrecision_Unsorted(results) == results

\* Array.prototype.sort with that comparator: a stable sort (ECMAScript 2019),
\* computed as an insertion sort that puts each element after its equals
SortByPrecision(results) ==
  LET insert(x, sorted) ==
        LET later == {i \in 1..Len(sorted) : ComparePrecision(sorted[i], x) > 0}
            at == IF later = {} THEN Len(sorted) + 1
                  ELSE CHOOSE i \in later : \A j \in later : i <= j
        IN SubSeq(sorted, 1, at - 1) \o <<x>> \o SubSeq(sorted, at, Len(sorted))
      RECURSIVE upto(_)
      upto(n) == IF n = 0 THEN <<>> ELSE insert(results[n], upto(n - 1))
  IN upto(Len(results))

\* const get = (types) => { ... return c ? c.long_name : "" }
get(components, types) ==
  LET c == findComponent(components, types)
  IN IF IsSome(c) THEN c[1].long_name ELSE <<>>

\* does t match [\d]+[a-zA-Z]? as a whole
IsNumberToken(t) ==
  \E d \in 1..Len(t) :
    /\ \A i \in 1..d : IsDigit(t[i])
    /\ \/ Len(t) = d
       \/ Len(t) = d + 1 /\ IsLetter(t[d + 1])

\* firstPart.match(/^(.+?)\s+([\d]+[a-zA-Z]?)$/): the pairs <<i, j>> such that
\* group 1 is p[1..i], the white space is p[i+1..j] and group 2 is the rest
MatchSplits(p) ==
  {ij \in (1..Len(p)) \X (1..Len(p)) :
     /\ ij[1] < ij[2] /\ ij[2] < Len(p)
     /\ \A k \in (ij[1] + 1)..ij[2] : IsSpace(p[k])
     /\ IsNumberToken(SubSeq(p, ij[2] + 1, Len(p)))}

\* the match the regular expression engine reports: the lazy group 1 is the
\* shortest one, the greedy \s+ the longest one for it; None for no match
StreetNumberMatch(p) ==
  LET ms == MatchSplits(p)
  IN IF ms = {} THEN None
     ELSE LET i == CHOOSE a \in {m[1] : m \in ms} : \A m \in ms : a <= m[1]
              j == CHOOSE b \in {m[2] : m \in {n \in ms : n[1] = i}} :
                     \A m \in {n \in ms : n[1] = i} : m[2] <= b
          IN Some([g1 |-> SubSeq(p, 1, i), g2 |-> SubSeq(p, j + 1, Len(p))])

\* lines 455-463 and 467-475: street and number out of the first part
FromFirstPart(firstPart) ==
  LET match == StreetNumberMatch(firstPart)
  IN IF IsSome(match)
     THEN [street |-> Trim(match[1].g1), number |-> Trim(match[1].g2)]
     ELSE [street |-> firstPart, number |-> <<>>]

\* a variant that parses addresses of three or more parts only
FallbackParse_ThreeParts(street, number, formatted) ==
  IF ~TruthyStr(street) \/ ~TruthyStr(number)
  THEN LET split == Split(formatted, ",")
           parts == [i \in 1..Len(split) |-> Trim(split[i])]
       IN IF Len(parts) >= 3 THEN FromFirstPart(parts[1])
          ELSE [street |-> street, number |-> number]
  ELSE [street |-> street, number |-> number]

\* lines 450-478: street and number after the formatted_address fallback
FallbackParse(street, number, formatted) ==
  IF ~TruthyStr(street) \/ ~TruthyStr(number)
  THEN LET split == Split(formatted, ",")
           parts == [i \in 1..Len(split) |-> Trim(split[i])]
       IN IF Len(parts) >= 3 THEN FromFirstPart(parts[1])
          ELSE IF Len(parts) = 2 THEN FromFirstPart(parts[1])
          ELSE [street |-> street, number |-> number]
  ELSE [street |-> street, number |-> number]

\* a variant without the short name
CountryOf_LongNameOnly(components) == get(components, {"country"})

\* lines 444 and 480-484: the country found in the components
CountryOf(components) ==
  LET country == get(components, {"country"})
      countryComp == findComponent(components, {"country"})
  IN IF ~TruthyStr(country)
     THEN (IF IsSome(countryComp) THEN countryComp[1].short_name ELSE <<>>)
     ELSE country

\* the default of line 487 (the Georgian name of Georgia)
DefaultCountry == <<"s", "a", "k", "a", "r", "t", "v", "e", "l", "o">>

\* lines 428-493: the response data built from the provider's candidates
ResponseData(results) ==
  LET sorted == SortByPrecision(results)
      result == sorted[1]
      components == result.address_components
      formatted == IF IsSome(result.formatted_address) THEN result.formatted_address[1] ELSE <<>>
      country == CountryOf(components)
      city == OrStr(get(components, {"locality"}),
                    OrStr(get(components, {"administrative_area_level_2"}),
                          get(components, {"administrative_area_level_1"})))
      street == OrStr(get(components, {"route"}),
                      OrStr(get(components, {"neighborhood"}), get(components, {"sublocality"})))
      number == OrStr(get(components, {"street_number"}), get(components, {"premise"}))
      parsed == FallbackParse(street, number, formatted)
  IN [country |-> OrStr(country, DefaultCountry),
      city |-> city,
      street |-> parsed.street,
      number |-> parsed.number,
      formatted_address |-> formatted,
      location_type |-> result.location_type]

(* ------------------------------ the cache ----------------------------- *)
\* new NodeCache({ stdTTL: 60 * 60 * 24 }), in seconds
stdTTL == 86400
\* the clock advances in steps of 18 hours
TickSeconds == 64800

\* The cache is the set of its entries [k, v, t]: key, value and the time
\* the entry expires; there is at most one entry per key.
\* cache.get(key): the value of the entry that has not expired, if any
CacheGet(c, key, time) ==
  LET live == {e \in c : e.k = key /\ e.t >= time}
  IN IF live = {} THEN None ELSE Some((CHOOSE e \in live : TRUE).v)

\* a variant whose entries live for an hour
CacheSet_OneHour(c, key, value, time) ==
  {e \in c : e.k # key} \cup {[k |-> key, v |-> value, t |-> time + 3600]}

\* a variant that stores the time of the write in the value
CacheSet_Stamped(c, key, value, time) ==
  {e \in c : e.k # key}
    \cup {[k |-> key, v |-> [value EXCEPT !.formatted_address = @ \o NumToStr(time)],
           t |-> time + stdTTL]}

\* cache.set(key, value): replaces the entry of the key, expiring stdTTL later
CacheSet(c, key, value, time) ==
  {e \in c : e.k # key} \cup {[k |-> key, v |-> value, t |-> time + stdTTL]}

\* the entries node-cache has deleted by the given time
CacheExpire(c, time) == {e \in c : e.t >= time}

(* ------------------------------ the state ----------------------------- *)
VARIABLES
  pc,      \* per request: "idle", "fetch1", "fetch2" (suspended in the first or
           \* second await), "done" (response sent), "rejected" (the handler's
           \* promise rejected; the handler sent nothing)
  kind,    \* per request: "none", "validate", "reverse"
  req,     \* per request: req.body
  data,    \* per request: the handler's variable `data`
  calls,   \* per request: the provider calls made so far, in order
  resp,    \* per request: the response sent by the handler
  cache,   \* the NodeCache instance
  now,     \* the clock, in seconds
  hist     \* history: per coordinates and language, the last result that
           \* reverse-geocode built from a provider answer, and when

vars == <<pc, kind, req, data, calls, resp, cache, now, hist>>

Requests == 1..NReq

NoBody == [lang |-> None]
NoData == [status |-> "", results |-> None]
NoResponse == [status |-> 0, body |-> [pending |-> TRUE]]

Init ==
  /\ pc = [r \in Requests |-> "idle"]
  /\ kind = [r \in Requests |-> "none"]
  /\ req = [r \in Requests |-> NoBody]
  /\ data = [r \in Requests |-> NoData]
  /\ calls = [r \in Requests |-> <<>>]
  /\ resp = [r \in Requests |-> NoResponse]
  /\ cache = {}
  /\ now = 0
  /\ hist = {}

\* a provider call: fetch(url) of the geocode API, by its query and language
Call(param, language) == [param |-> param, language |-> language]

\* the handler ends with a response
Finish(r, response) ==
  /\ pc' = [pc EXCEPT ![r] = "done"]
  /\ resp' = [resp EXCEPT ![r] = response]

\* the handler suspends in `await (await fetch(url)).json()`
Await(r, where, call) ==
  /\ pc' = [pc EXCEPT ![r] = where]
  /\ calls' = [calls EXCEPT ![r] = Append(@, call)]
  /\ UNCHANGED resp

\* fetch or .json() throws: nothing in the handler catches it
Reject(r) ==
  /\ pc' = [pc EXCEPT ![r] = "rejected"]
  /\ UNCHANGED <<resp, data, calls, cache, hist>>

(* ----------------------- POST /validate, by steps ---------------------- *)
\* lines 333-351: from the request to the first await
ValidateStart(r, bodies) ==
  /\ pc[r] = "idle"
  /\ \E body \in bodies :
       /\ kind' = [kind EXCEPT ![r] = "validate"]
       /\ req' = [req EXCEPT ![r] = body]
       /\ LET msg == Messages(LangOf(body))
              errors == RequiredErrors(body, msg)
          IN IF ErrorKeys(errors) # {}
             THEN Finish(r, RequiredResponse(errors)) /\ UNCHANGED calls
             ELSE Await(r, "fetch1", Call("address", LangOf(body)))
       /\ UNCHANGED <<data, cache, now, hist>>

\* lines 362-401: the verdict on data.results[0]
ValidateFinish(r, d) ==
  LET msg == Messages(LangOf(req[r]))
      result == d.results[1][1]
  IN Finish(r, Verdict(FieldErrors(req[r], result, msg), result))

\* lines 351-356 (and on, when the first answer is usable)
ValidateFetch1(r, answers) ==
  /\ pc[r] = "fetch1" /\ kind[r] = "validate"
  /\ \E d \in answers :
       /\ data' = [data EXCEPT ![r] = d]
       /\ IF NoUsableResult(d)
          THEN Await(r, "fetch2", Call("address", LangEn))
          ELSE ValidateFinish(r, d) /\ UNCHANGED calls
       /\ UNCHANGED <<kind, req, cache, now, hist>>

\* lines 355-401
ValidateFetch2(r, answers) ==
  /\ pc[r] = "fetch2" /\ kind[r] = "validate"
  /\ \E d \in answers :
       /\ data' = [data EXCEPT ![r] = d]
       /\ IF NoUsableResult(d)
          THEN Finish(r, NotFoundVerdict(Messages(LangOf(req[r]))))
          ELSE ValidateFinish(r, d)
       /\ UNCHANGED <<kind, req, calls, cache, now, hist>>

(* -------------------- POST /reverse-geocode, by steps ------------------ *)
MissingResponse == [status |-> 400, body |-> [error |-> "Missing coordinates"]]
NotFoundResponse == [status |-> 404, body |-> [error |-> "Location not found"]]

\* lines 405-417: from the request to the first await
ReverseStart(r, bodies) ==
  /\ pc[r] = "idle"
  /\ \E body \in bodies :
       /\ kind' = [kind EXCEPT ![r] = "reverse"]
       /\ req' = [req EXCEPT ![r] = body]
       /\ LET cached == CacheGet(cache, cacheKey(body), now)
          IN IF IsSome(cached)
             THEN Finish(r, [status |-> 200, body |-> cached[1]]) /\ UNCHANGED calls
             ELSE IF MissingCoordinates(body)
             THEN Finish(r, MissingResponse) /\ UNCHANGED calls
             ELSE Await(r, "fetch1", Call("latlng", LangOf(body)))
       /\ UNCHANGED <<data, cache, now, hist>>

\* the (latitude, longitude, language) of a history entry is that of a body
SameTriple(h, body) ==
  h.latitude = body.latitude /\ h.longitude = body.longitude /\ h.lang = LangOf(body)

\* lines 428-496: build the result, store it, send it
ReverseFinish(r, d) ==
  LET responseData == ResponseData(d.results[1])
  IN /\ cache' = CacheSet(cache, cacheKey(req[r]), responseData, now)
     /\ hist' = {h \in hist : ~SameTriple(h, req[r])}
                  \cup {[latitude |-> req[r].latitude, longitude |-> req[r].longitude,
                         lang |-> LangOf(req[r]), v |-> responseData, at |-> now]}
     /\ Finish(r, [status |-> 200, body |-> responseData])

\* lines 417-422 (and on, when the first answer is usable)
ReverseFetch1(r, answers) ==
  /\ pc[r] = "fetch1" /\ kind[r] = "reverse"
  /\ \E d \in answers :
       /\ data' = [data EXCEPT ![r] = d]
       /\ IF NoUsableResult(d)
          THEN Await(r, "fetch2", Call("latlng", LangEn)) /\ UNCHANGED <<cache, hist>>
          ELSE ReverseFinish(r, d) /\ UNCHANGED calls
       /\ UNCHANGED <<kind, req, now>>

\* lines 421-496
ReverseFetch2(r, answers) ==
  /\ pc[r] = "fetch2" /\ kind[r] = "reverse"
  /\ \E d \in answers :
       /\ data' = [data EXCEPT ![r] = d]
       /\ IF NoUsableResult(d)
          THEN Finish(r, NotFoundResponse) /\ UNCHANGED <<cache, hist>>
          ELSE ReverseFinish(r, d)
       /\ UNCHANGED <<kind, req, calls, now>>

\* lines 351, 355, 417, 421: the awaited fetch(url) or .json() throws
FetchThrows(r) ==
  /\ pc[r] \in {"fetch1", "fetch2"}
  /\ Reject(r)
  /\ UNCHANGED <<kind, req, now>>

\* time passes; node-cache drops what has expired
Tick ==
  /\ now < MaxTicks * TickSeconds
  /\ now' = now + TickSeconds
  /\ cache' = CacheExpire(cache, now')
  /\ UNCHANGED <<pc, kind, req, data, calls, resp, hist>>

(* ------------------- request bodies and provider answers --------------- *)
sGeorgia == <<"G", "e", "o", "r", "g", "i", "a">>
sSakartvelo == <<"S", "a", "k", "a", "r", "t", "v", "e", "l", "o">>
sGE == <<"G", "E">>
sPeru == <<"P", "e", "r", "u">>
sTbilisi == <<"T", "b", "i", "l", "i", "s", "i">>
sBatumi == <<"B", "a", "t", "u", "m", "i">>
sRustaveliAve == <<"R", "u", "s", "t", "a", "v", "e", "l", "i", " ", "A", "v", "e">>
sRustaveli == <<"r", "u", "s", "t", "a", "v", "e", "l", "i">>
sMain == <<"M", "a", "i", "n">>
s12 == <<"1", "2">>
s7 == <<"7">>
s7a == <<"7", "a">>
sRustaveliAve12TbilisiGeorgia == <<"R", "u", "s", "t", "a", "v", "e", "l", "i", " ", "A", "v", "e", " ", "1", "2", ",", " ", "T", "b", "i", "l", "i", "s", "i", ",", " ", "G", "e", "o", "r", "g", "i", "a">>
sTbilisiGeorgia == <<"T", "b", "i", "l", "i", "s", "i", ",", " ", "G", "e", "o", "r", "g", "i", "a">>

Component(long, short, types) == [long_name |-> long, short_name |-> short, types |-> types]
cCountry == Component(sGeorgia, sGE, {"country", "political"})
cCountryLocal == Component(sSakartvelo, sGE, {"country", "political"})
cCountryShortOnly == Component(<<>>, sGE, {"country", "political"})
cCountryNameless == Component(<<>>, <<>>, {"country", "political"})
cCity == Component(sTbilisi, sTbilisi, {"locality", "political"})
cRegion == Component(sBatumi, sBatumi, {"administrative_area_level_1", "political"})
cRoute == Component(sRustaveliAve, sRustaveliAve, {"route"})
cNumber == Component(s12, s12, {"street_number"})
cPremise == Component(s7a, s7a, {"premise"})
cNumberShort == Component(<<"1">>, <<"1">>, {"street_number"})

Candidate(formatted, components, location_type, types, partial) ==
  [formatted_address |-> formatted, address_components |-> components,
   location_type |-> location_type, types |-> types, partial_match |-> partial]

LocationTypes == {order[i] : i \in 1..Len(order)}

\* a provider answer with a usable result list, and the answers without one
Usable(results) == [status |-> "OK", results |-> Some(results)]
UnusableAnswers ==
  {[status |-> "ZERO_RESULTS", results |-> Some(<<>>)],
   [status |-> "OK", results |-> Some(<<>>)],
   [status |-> "OK", results |-> None],
   [status |-> "OVER_QUERY_LIMIT",
    results |-> Some(<<Candidate(Some(sTbilisiGeorgia), <<cCity, cCountry>>, "APPROXIMATE",
                                 {"locality"}, None)>>)]}

\* bodies of POST /validate
ValidateBodies ==
  [country : {None, Some(<<" ">>), Some(sGE), Some(sPeru)},
   city : {None, Some(<<>>), Some(sTbilisi), Some(sBatumi)},
   street : {None, Some(<<" ", " ">>), Some(sRustaveli), Some(sMain)},
   number : {None, Some(<<>>), Some(s12), Some(s7)},
   lang : {None, Some(LangEn)}]

ValidateComponentLists ==
  {<<cNumber, cRoute, cCity, cCountry>>,
   <<cRoute, cCity, cCountry>>,
   <<cNumber, cRoute, cRegion, cCity, cCountryLocal>>,
   <<cPremise, cNumber, cRoute, cCity, cCountry>>,
   <<cNumberShort, cRoute, cCity, cCountry>>,
   <<>>}

ValidateCandidates ==
  {Candidate(Some(sRustaveliAve12TbilisiGeorgia), cs, lt, ts, pm) :
     cs \in ValidateComponentLists, lt \in LocationTypes,
     ts \in {{"street_address"}, {"premise", "establishment"}, {"route"}},
     pm \in {None, Some(TRUE), Some(FALSE)}}

\* the answers to a forward geocode: one candidate, or a poor candidate
\* followed by an exact one
ValidateAnswers ==
  {Usable(<<c>>) : c \in ValidateCandidates}
  \cup {Usable(<<Candidate(Some(sTbilisiGeorgia), <<cCity, cCountry>>, "APPROXIMATE",
                           {"locality"}, Some(TRUE)),
                 Candidate(Some(sRustaveliAve12TbilisiGeorgia),
                           <<cNumber, cRoute, cCity, cCountry>>, "ROOFTOP",
                           {"street_address"}, None)>>)}
  \cup UnusableAnswers

\* bodies of POST /reverse-geocode
ReverseBodies ==
  [latitude : {None, Some(0), Some(41)},
   longitude : {None, Some(0), Some(44)},
   lang : {None, Some(LangEn)}]

\* every string of at most n characters of the alphabet
RECURSIVE StringsUpTo(_, _)
StringsUpTo(alphabet, n) ==
  IF n = 0 THEN {<<>>}
  ELSE LET shorter == StringsUpTo(alphabet, n - 1)
       IN shorter \cup {Append(t, c) : t \in {u \in shorter : Len(u) = n - 1}, c \in alphabet}

\* formatted addresses: every short string of a letter, a digit, a space
\* and a comma; and a few addresses to go with every component list
ParseAlphabet == {"a", "1", " ", ","}
ShortAddresses == {Some(t) : t \in StringsUpTo(ParseAlphabet, MaxLen)}
FullAddresses ==
  {None, Some(<<>>), Some(<<"a", " ", "1", ",">>), Some(sTbilisiGeorgia),
   Some(sRustaveliAve12TbilisiGeorgia)}

ReverseComponentLists ==
  {<<>>,
   <<cCity, cCountry>>,
   <<cRegion, cCountryShortOnly>>,
   <<cCountryNameless, cCountry>>,
   <<cRoute, cCity, cCountry>>,
   <<cNumber, cCity>>,
   <<cPremise, cNumber, cRoute, cRegion, cCity, cCountryLocal>>}

\* candidates that differ in precision and in one more thing
RankCandidates ==
  {Candidate(fa, <<>>, lt, {"street_address"}, None) :
     fa \in {Some(<<"a">>), Some(<<"b">>)}, lt \in LocationTypes}

RECURSIVE ListsUpTo(_, _)
ListsUpTo(elems, n) ==
  IF n = 0 THEN {<<>>}
  ELSE LET shorter == ListsUpTo(elems, n - 1)
       IN shorter \cup {Append(t, c) : t \in {u \in shorter : Len(u) = n - 1}, c \in elems}

\* the answers to a reverse geocode: one candidate with any formatted address
\* or any component list, or several candidates in any order
ReverseAnswers ==
  {Usable(<<Candidate(fa, <<cCity, cCountry>>, "GEOMETRIC_CENTER", {"route"}, None)>>) :
     fa \in ShortAddresses}
  \cup {Usable(<<Candidate(fa, cs, "GEOMETRIC_CENTER", {"route"}, None)>>) :
          fa \in FullAddresses, cs \in ReverseComponentLists}
  \cup {Usable(l) : l \in ListsUpTo(RankCandidates, MaxResults) \ {<<>>}}
  \cup UnusableAnswers

\* the bodies and answers of the runs with several requests
CoreValidateBodies ==
  {[country |-> Some(sGE), city |-> Some(sTbilisi), street |-> Some(sRustaveli),
    number |-> Some(s12), lang |-> None],
   [country |-> Some(sGE), city |-> Some(<<" ">>), street |-> Some(sRustaveli),
    number |-> None, lang |-> Some(LangEn)]}
CoreReverseBodies ==
  {[latitude |-> Some(41), longitude |-> Some(44), lang |-> None],
   [latitude |-> Some(41), longitude |-> Some(44), lang |-> Some(LangEn)],
   [latitude |-> None, longitude |-> Some(44), lang |-> None]}
CoreAnswers ==
  {Usable(<<Candidate(Some(sRustaveliAve12TbilisiGeorgia), <<cNumber, cRoute, cCity, cCountry>>,
                      "ROOFTOP", {"street_address"}, None)>>),
   Usable(<<Candidate(Some(sTbilisiGeorgia), <<cCity, cCountry>>, "APPROXIMATE",
                      {"locality"}, Some(TRUE)),
            Candidate(Some(sTbilisiGeorgia), <<>>, "GEOMETRIC_CENTER", {"route"}, None)>>),
   [status |-> "ZERO_RESULTS", results |-> Some(<<>>)]}

(* --------------------------- specifications ---------------------------- *)
\* requests arrive in the order of their numbers
MayStart(r) == IF r = 1 THEN TRUE ELSE pc[r - 1] # "idle"

\* the server: any requests, one after the other or at once
Next ==
  \/ \E r \in Requests : MayStart(r) /\ ValidateStart(r, CoreValidateBodies)
  \/ \E r \in Requests : ValidateFetch1(r, CoreAnswers)
  \/ \E r \in Requests : ValidateFetch2(r, CoreAnswers)
  \/ \E r \in Requests : MayStart(r) /\ ReverseStart(r, CoreReverseBodies)
  \/ \E r \in Requests : ReverseFetch1(r, CoreAnswers)
  \/ \E r \in Requests : ReverseFetch2(r, CoreAnswers)
  \/ \E r \in Requests : FetchThrows(r)
  \/ Tick

Spec == Init /\ [][Next]_vars

\* one POST /validate, with any body and any provider answers
NextValidate ==
  \/ ValidateStart(1, ValidateBodies)
  \/ ValidateFetch1(1, ValidateAnswers)
  \/ ValidateFetch2(1, ValidateAnswers)
  \/ FetchThrows(1)

SpecValidate == Init /\ [][NextValidate]_vars

\* one POST /reverse-geocode, with any body and any provider answers
NextReverse ==
  \/ ReverseStart(1, ReverseBodies)
  \/ ReverseFetch1(1, ReverseAnswers)
  \/ ReverseFetch2(1, ReverseAnswers)
  \/ FetchThrows(1)

SpecReverse == Init /\ [][NextReverse]_vars

(* ------------------------------ claims --------------------------------- *)
\* the request has been taken up by its handler
Started(r) == pc[r] # "idle"
\* the handler of a POST /validate answered with a verdict on a provider result
HasVerdict(r) ==
  kind[r] = "validate" /\ pc[r] = "done" /\ "geometry_type" \in DOMAIN resp[r].body
\* the candidate that verdict is about
FirstCandidate(r) == data[r].results[1][1]

\* C1: a verdict on a provider result is valid if and only if no field error
\* was recorded, the first candidate's precision is ROOFTOP, its types contain
\* street_address or premise, and partial_match is not set; so an APPROXIMATE
\* result is never valid.
C1_ValidIff ==
  \A r \in Requests :
    HasVerdict(r) =>
      LET c == FirstCandidate(r)
          body == resp[r].body
      IN /\ body.valid <=>
              /\ "errors" \notin DOMAIN body
              /\ c.location_type = "ROOFTOP"
              /\ c.types \cap {"street_address", "premise"} # {}
              /\ c.partial_match \in {None, Some(FALSE)}
         /\ c.location_type = "APPROXIMATE" => ~body.valid

\* a verdict that is valid, and is about the answer of the English retry
C1_Witness ==
  \E r \in Requests : HasVerdict(r) /\ resp[r].body.valid /\ Len(calls[r]) = 2

\* the field is missing, empty or made of white space only
IsBlankField(body, f) ==
  body[f] = None \/ \A i \in 1..Len(body[f][1]) : body[f][1][i] = " "

\* C2: a validate request with a blank field is answered valid=false with a
\* 'required' error for exactly the blank fields, and no provider call is made.
C2_RequiredFields ==
  \A r \in Requests :
    (kind[r] = "validate" /\ \E f \in Fields : IsBlankField(req[r], f)) =>
      /\ pc[r] = "done"
      /\ calls[r] = <<>>
      /\ resp[r].status = 400
      /\ resp[r].body.valid = FALSE
      /\ \A f \in Fields :
           resp[r].body.errors[f] =
             IF IsBlankField(req[r], f)
             THEN <<IF req[r].lang = Some(LangEn) THEN "en" ELSE "ka", "required">>
             ELSE <<>>

\* a request with a white-space-only field next to filled-in fields
C2_Witness ==
  \E r \in Requests :
    /\ kind[r] = "validate" /\ pc[r] = "done" /\ resp[r].status = 400
    /\ req[r].street = Some(<<" ", " ">>)
    /\ req[r].country = Some(sGE) /\ req[r].city = Some(sTbilisi) /\ req[r].number = Some(s12)

\* the provider answer has no usable result list
IsUnusable(d) == d.status # "OK" \/ d.results = None \/ d.results = Some(<<>>)

\* C3: a request makes at most two provider calls, the first in the requested
\* language and the second in English; the second is made only when the first
\* has returned without a usable result, and then it is always made.
C3_AtMostTwoCalls ==
  /\ [](\A r \in Requests :
          /\ Len(calls[r]) <= 2
          /\ Len(calls[r]) >= 1 =>
               calls[r][1].language = (IF req[r].lang = None THEN LangKa ELSE req[r].lang[1])
          /\ Len(calls[r]) = 2 => calls[r][2].language = LangEn)
  /\ [][\A r \in Requests :
          /\ Len(calls'[r]) = 2 /\ Len(calls[r]) < 2 =>
               /\ pc[r] = "fetch1" /\ Len(calls[r]) = 1
               /\ IsUnusable(data'[r])
          /\ (pc[r] = "fetch1" /\ pc'[r] = "done") =>
               /\ ~IsUnusable(data'[r])
               /\ calls'[r] = calls[r] /\ Len(calls[r]) = 1]_vars

\* a request answered after the English retry, and one answered without it
C3_Witness ==
  \E q \in Requests, r \in Requests :
    /\ pc[q] = "done" /\ Len(calls[q]) = 2 /\ resp[q].status = 200
    /\ kind[q] = "reverse" /\ kind[r] = "validate"
    /\ pc[r] = "done" /\ Len(calls[r]) = 1 /\ resp[r].status = 200

\* C4 (as claimed): a throwing provider call is caught, so no exception leaves
\* a handler and every request that is no longer handled has its response.
C4_ThrowIsCaught ==
  \A r \in Requests :
    /\ pc[r] # "rejected"
    /\ pc[r] \notin {"idle", "fetch1", "fetch2"} => resp[r] # NoResponse

\* the request that starts in this step, as a reverse-geocode request
StartsReverse(r) == pc[r] = "idle" /\ pc'[r] # "idle" /\ kind'[r] = "reverse"

\* C5 (amended): once reverse-geocode has built a result from a provider
\* answer, a later request with the same coordinates and language that starts
\* less than the TTL after it makes no provider call and is answered with
\* that result, unchanged.
C5_SecondFromCache ==
  [][\A r \in Requests :
       StartsReverse(r) =>
         \A h \in hist :
           (SameTriple(h, req'[r]) /\ now < h.at + stdTTL) =>
             /\ pc'[r] = "done"
             /\ calls'[r] = <<>>
             /\ resp'[r] = [status |-> 200, body |-> h.v]]_vars

\* two requests for the same place: the first asked the provider, the second
\* came after the clock had advanced and was answered without a call
C5_Witness ==
  \E q \in Requests, r \in Requests :
    /\ q < r /\ kind[q] = "reverse" /\ kind[r] = "reverse"
    /\ req[q] = req[r]
    /\ pc[q] = "done" /\ pc[r] = "done"
    /\ Len(calls[q]) >= 1 /\ calls[r] = <<>>
    /\ resp[q].status = 200 /\ resp[r] = resp[q]
    /\ \E h \in hist : SameTriple(h, req[r]) /\ h.at < now /\ cache # {}

\* C5 (as claimed): whenever a request follows a finished request for the
\* same coordinates and language that went to the provider, with no time
\* passed at all, the two together have called the provider exactly once and
\* the second has the response of the first.
C5_OneCallForTwo ==
  [][\A q \in Requests, r \in Requests :
       (/\ StartsReverse(r) /\ kind[q] = "reverse" /\ pc[q] = "done"
        /\ Len(calls[q]) >= 1 /\ now = 0
        /\ req[q].latitude = req'[r].latitude /\ req[q].longitude = req'[r].longitude
        /\ LangOf(req[q]) = LangOf(req'[r])) =>
         /\ Len(calls[q]) + Len(calls'[r]) = 1
         /\ calls'[r] = <<>>
         /\ resp'[r] = resp[q]]_vars

\* the request got a complete ReverseResult
GotResult(r) == kind[r] = "reverse" /\ pc[r] = "done" /\ resp[r].status = 200

\* C6: every cache entry is the complete result some reverse-geocode request
\* with exactly that latitude, longitude and language got; validate requests
\* and requests ending in an error leave the cache as it is.
C6_CacheHoldsResults ==
  /\ [](\A e \in cache :
          \E q \in Requests :
            /\ GotResult(q) /\ cacheKey(req[q]) = e.k /\ resp[q].body = e.v
            /\ DOMAIN e.v = {"country", "city", "street", "number",
                             "formatted_address", "location_type"}
            /\ \A r \in Requests :
                 (kind[r] = "reverse" /\ cacheKey(req[r]) = e.k) =>
                   /\ req[r].latitude = req[q].latitude
                   /\ req[r].longitude = req[q].longitude
                   /\ LangOf(req[r]) = LangOf(req[q]))
  /\ [][\A r \in Requests :
          (/\ pc'[r] # pc[r]
           /\ \/ kind'[r] = "validate"
              \/ resp'[r] \in {MissingResponse, NotFoundResponse}) =>
            cache' = cache]_vars

\* a cache that holds a result while a validate request, a request without
\* coordinates or a request the provider found nothing for has ended
C6_Witness ==
  /\ cache # {}
  /\ \E r \in Requests :
       /\ pc[r] = "done"
       /\ kind[r] = "validate" \/ resp[r] \in {MissingResponse, NotFoundResponse}

\* the request got a result that its handler built from a provider answer
Built(r) == GotResult(r) /\ Len(calls[r]) >= 1
\* the candidates of that answer, in the provider's order
Candidates(r) == data[r].results[1]

Rank(location_type) ==
  CASE location_type = "ROOFTOP" -> 1
    [] location_type = "RANGE_INTERPOLATED" -> 2
    [] location_type = "GEOMETRIC_CENTER" -> 3
    [] location_type = "APPROXIMATE" -> 4

\* the first of the candidates no other candidate is more precise than
MostPrecise(cands) ==
  LET best == {i \in 1..Len(cands) :
                 \A j \in 1..Len(cands) : Rank(cands[i].location_type) <= Rank(cands[j].location_type)}
  IN cands[CHOOSE i \in best : \A j \in best : i <= j]

\* C7: the result is built from a candidate of the most precise kind there
\* is, and from the first such candidate in the provider's order.
C7_MostPreciseFirst ==
  \A r \in Requests :
    Built(r) =>
      LET chosen == MostPrecise(Candidates(r))
      IN /\ resp[r].body.location_type = chosen.location_type
         /\ resp[r].body.formatted_address =
              (IF chosen.formatted_address = None THEN <<>> ELSE chosen.formatted_address[1])
         /\ resp[r].body = ResponseData(<<chosen>>)

\* the chosen candidate is the second of three: a less precise one comes
\* before it and one of its own precision after it
C7_Witness ==
  \E r \in Requests :
    /\ Built(r) /\ Len(Candidates(r)) = 3
    /\ Candidates(r)[1].location_type = "APPROXIMATE"
    /\ Candidates(r)[2].location_type = "RANGE_INTERPOLATED"
    /\ Candidates(r)[3].location_type = "RANGE_INTERPOLATED"
    /\ Candidates(r)[2].formatted_address = Some(<<"b">>)
    /\ Candidates(r)[3].formatted_address = Some(<<"a">>)
    /\ resp[r].body.formatted_address = <<"b">>

\* the long names of the components that carry one of the tags
NamesTagged(components, tags) ==
  {components[i].long_name : i \in {j \in 1..Len(components) : components[j].types \cap tags # {}}}

\* neither a street nor a number comes out of the components
NoStreetNoNumber(components) ==
  NamesTagged(components, {"route", "neighborhood", "sublocality", "street_number", "premise"})
    \subseteq {<<>>}

\* the string without the white space at its ends
Trimmed(t) ==
  IF \A i \in 1..Len(t) : t[i] = " " THEN <<>>
  ELSE LET first == CHOOSE i \in 1..Len(t) : t[i] # " " /\ \A j \in 1..(i - 1) : t[j] = " "
           last == CHOOSE i \in 1..Len(t) : t[i] # " " /\ \A j \in (i + 1)..Len(t) : t[j] = " "
       IN [i \in 1..(last - first + 1) |-> t[first + i - 1]]

\* the text before the first comma, trimmed, and the number of commas
FirstPart(t) ==
  LET commas == {i \in 1..Len(t) : t[i] = ","}
      upto == IF commas = {} THEN Len(t) ELSE (CHOOSE i \in commas : \A j \in commas : i <= j) - 1
  IN Trimmed([i \in 1..upto |-> t[i]])
Commas(t) == Cardinality({i \in 1..Len(t) : t[i] = ","})

\* digits, then at most one letter
IsHouseNumber(t) ==
  /\ Len(t) >= 1 /\ t[1] \in Digits
  /\ \A i \in 1..(Len(t) - 1) : t[i] \in Digits
  /\ t[Len(t)] \in Digits \/ (Len(t) >= 2 /\ IsLetter(t[Len(t)]))

\* what the claim expects of the first part: text, white space and a house
\* number at the end give the text and the number; anything else is a street
Expected(first) ==
  LET spaces == {i \in 1..Len(first) : first[i] = " "}
      cut == IF spaces = {} THEN 0 ELSE CHOOSE i \in spaces : \A j \in spaces : j <= i
      text == Trimmed([i \in 1..cut |-> first[i]])
      token == [i \in 1..(Len(first) - cut) |-> first[cut + i]]
  IN IF cut > 0 /\ text # <<>> /\ IsHouseNumber(token)
     THEN [street |-> text, number |-> token]
     ELSE [street |-> first, number |-> <<>>]

\* C8: when the components give neither street nor number, they come from
\* the first comma-separated part of formatted_address if there are two or
\* more parts, and stay empty if there is one.
C8_FallbackParse ==
  \A r \in Requests :
    (Built(r) /\ NoStreetNoNumber(MostPrecise(Candidates(r)).address_components)) =>
      LET formatted == resp[r].body.formatted_address
          got == [street |-> resp[r].body.street, number |-> resp[r].body.number]
      IN /\ Commas(formatted) >= 1 => got = Expected(FirstPart(formatted))
         /\ Commas(formatted) = 0 => got = [street |-> <<>>, number |-> <<>>]
         /\ formatted = sRustaveliAve12TbilisiGeorgia =>
              got = [street |-> sRustaveliAve, number |-> s12]
         /\ formatted = sTbilisiGeorgia => got = [street |-> sTbilisi, number |-> <<>>]

\* a two-part address whose first part ends in a house number
C8_Witness ==
  \E r \in Requests :
    /\ Built(r) /\ NoStreetNoNumber(MostPrecise(Candidates(r)).address_components)
    /\ resp[r].body.formatted_address = <<"a", " ", "1", "a", ",">>
    /\ resp[r].body.street = <<"a">> /\ resp[r].body.number = <<"1", "a">>

\* C9: the country of a result is never empty: it is the long name of the
\* first country component, else its short name, else the default.
C9_CountryNeverEmpty ==
  /\ \A e \in cache : e.v.country # <<>>
  /\ \A r \in Requests :
       Built(r) =>
         LET components == MostPrecise(Candidates(r)).address_components
             tagged == {i \in 1..Len(components) : "country" \in components[i].types}
             country == resp[r].body.country
         IN /\ country # <<>>
            /\ IF tagged = {} THEN country = DefaultCountry
               ELSE LET c == components[CHOOSE i \in tagged : \A j \in tagged : i <= j]
                    IN country = (IF c.long_name # <<>> THEN c.long_name
                                  ELSE IF c.short_name # <<>> THEN c.short_name
                                  ELSE DefaultCountry)

\* a result whose country is the short name of a component without long name
C9_Witness ==
  \E r \in Requests :
    /\ Built(r) /\ resp[r].body.country = sGE
    /\ \E e \in cache : e.v.country = sGE

\* C10 (as claimed): the missing-coordinates error is the answer exactly when
\* latitude or longitude is not in the body, and no provider call precedes it.
C10_MissingIffAbsent ==
  \A r \in Requests :
    (kind[r] = "reverse" /\ Started(r)) =>
      /\ (pc[r] = "done" /\ resp[r] = MissingResponse)
           <=> (req[r].latitude = None \/ req[r].longitude = None)
      /\ resp[r] = MissingResponse => calls[r] = <<>>

\* the tags that make a component the one of a field
FieldTags(f) ==
  CASE f = "country" -> {"country"}
    [] f = "city" -> {"locality", "administrative_area_level_2", "administrative_area_level_1"}
    [] f = "street" -> {"route", "street_address"}
    [] f = "number" -> {"street_number", "premise"}

\* the string in lower case without anything but a-z and 0-9
Norm(t) ==
  LET lower == [i \in 1..Len(t) |->
                  IF t[i] \in DOMAIN UpperToLower THEN UpperToLower[t[i]] ELSE t[i]]
  IN SelectSeq(lower, LAMBDA c : c \in LowerLetters \cup Digits)

\* needle occurs in hay
Contains(hay, needle) ==
  \E i \in 0..(Len(hay) - Len(needle)) : \A k \in 1..Len(needle) : hay[i + k] = needle[k]

\* what the claim says of a field: there is no component with one of the
\* field's tags, or the first such component does not contain the input
ExpectedFieldError(f, body, candidate) ==
  LET components == candidate.address_components
      tagged == {i \in 1..Len(components) : components[i].types \cap FieldTags(f) # {}}
  IN \/ tagged = {}
     \/ LET c == components[CHOOSE i \in tagged : \A j \in tagged : i <= j]
            input == Norm(body[f][1])
        IN /\ ~Contains(Norm(c.long_name), input)
           /\ f = "country" => ~Contains(Norm(c.short_name), input)

\* the response carries a message for the field
Recorded(r, f) == "errors" \in DOMAIN resp[r].body /\ resp[r].body.errors[f] # <<>>

\* C11 (amended): a verdict carries the errors mapping exactly when a field
\* error was recorded, and then the mapping is not empty: the required-field
\* answer and the field-mismatch verdict carry it, the verdict without a
\* mismatch and the not-found answer do not.
C11_ErrorsIffRecorded ==
  \A r \in Requests :
    (kind[r] = "validate" /\ pc[r] = "done") =>
      LET body == resp[r].body
      IN /\ "errors" \in DOMAIN body => \E f \in Fields : body.errors[f] # <<>>
         /\ resp[r].status = 400 => "errors" \in DOMAIN body
         /\ "message" \in DOMAIN body => "errors" \notin DOMAIN body
         /\ HasVerdict(r) =>
              ("errors" \in DOMAIN body
                 <=> \E f \in Fields : ExpectedFieldError(f, req[r], FirstCandidate(r)))

\* a valid verdict: all four fields match, and the errors mapping is left out
C11_Witness ==
  \E r \in Requests :
    /\ HasVerdict(r) /\ resp[r].body.valid
    /\ "errors" \notin DOMAIN resp[r].body
    /\ \A f \in Fields : ~ExpectedFieldError(f, req[r], FirstCandidate(r))

\* C11 (as claimed): the required-field answer and every verdict on a
\* provider result, with or without a mismatch, carry the errors mapping.
C11_AlwaysCarriesErrors ==
  \A r \in Requests :
    (kind[r] = "validate" /\ pc[r] = "done" /\ "message" \notin DOMAIN resp[r].body) =>
      "errors" \in DOMAIN resp[r].body

\* C12: a field error is recorded if and only if the first candidate has no
\* component with one of the field's tags, or the first such component in
\* the provider's order does not contain the normalized input in its long
\* name (for the country: nor in its short name); an input that contains the
\* component is no match.
C12_FieldErrorIff ==
  \A r \in Requests :
    HasVerdict(r) =>
      \A f \in Fields : Recorded(r, f) <=> ExpectedFieldError(f, req[r], FirstCandidate(r))

\* the input "12" contains the number component "1", which is an error; the
\* city is taken from the region, which comes before the locality; the
\* country matches on the short name only
C12_Witness ==
  \E q \in Requests :
    /\ HasVerdict(q) /\ req[q].number = Some(s12) /\ req[q].street = Some(sRustaveli)
    /\ FirstCandidate(q).address_components = <<cNumberShort, cRoute, cCity, cCountry>>
    /\ Recorded(q, "number") /\ ~Recorded(q, "street")

\* the long name of the first component that carries the tag, "" without one
FirstNamed(components, tag) ==
  LET tagged == {i \in 1..Len(components) : tag \in components[i].types}
  IN IF tagged = {} THEN <<>>
     ELSE components[CHOOSE i \in tagged : \A j \in tagged : i <= j].long_name

\* the first of the tags, in their order, that names something
FirstNonEmpty(components, tags) ==
  LET named == {i \in 1..Len(tags) : FirstNamed(components, tags[i]) # <<>>}
  IN IF named = {} THEN <<>>
     ELSE FirstNamed(components, tags[CHOOSE i \in named : \A j \in named : i <= j])

\* C14: the fallback on formatted_address only fills what was empty: a street
\* or a number that the components of the chosen candidate give is the one
\* of the result, also when the other of the two is empty, and the city and
\* the country of the result are those of the components.
C14_FallbackOnlyFills ==
  \A r \in Requests :
    Built(r) =>
      LET components == MostPrecise(Candidates(r)).address_components
          street == FirstNonEmpty(components, <<"route", "neighborhood", "sublocality">>)
          number == FirstNonEmpty(components, <<"street_number", "premise">>)
          city == FirstNonEmpty(components, <<"locality", "administrative_area_level_2",
                                              "administrative_area_level_1">>)
          country == FirstNamed(components, "country")
      IN /\ street # <<>> => resp[r].body.street = street
         /\ number # <<>> => resp[r].body.number = number
         /\ resp[r].body.city = city
         /\ country # <<>> => resp[r].body.country = country

\* the two requests have the same latitude, longitude and language
SameTripleOf(a, b) ==
  a.latitude = b.latitude /\ a.longitude = b.longitude /\ LangOf(a) = LangOf(b)

\* the request builds its result in this step
BuildsNow(r) ==
  pc[r] \in {"fetch1", "fetch2"} /\ pc'[r] = "done" /\ kind[r] = "reverse" /\ resp'[r].status = 200

\* the values the cache holds for the key
CachedFor(c, body) == {e.v : e \in {x \in c : x.k = cacheKey(body)}}

\* C13: requests for the same latitude, longitude and language that each
\* went to the provider and got the same answer from it return the same
\* result, however they interleave; the request that builds its result
\* leaves the cache with exactly that result under the key, and when the
\* cache held that of such an earlier request before, the write does not
\* change the value.
C13_SameResultSameCache ==
  /\ [](\A q \in Requests, r \in Requests :
          (Built(q) /\ Built(r) /\ SameTripleOf(req[q], req[r]) /\ data[q] = data[r]) =>
            resp[q] = resp[r])
  /\ [][\A r \in Requests :
          BuildsNow(r) =>
            /\ CachedFor(cache', req[r]) = {resp'[r].body}
            /\ \A q \in Requests :
                 (/\ Built(q) /\ SameTripleOf(req[q], req[r]) /\ data[q] = data'[r]
                  /\ CachedFor(cache, req[r]) = {resp[q].body}) =>
                   CachedFor(cache', req[r]) = CachedFor(cache, req[r])]_vars

\* two requests for the same place that both missed the cache and both
\* called the provider: the entry of the first has not expired, so the
\* second began before the first had stored it; the answers were the same
C13_Witness ==
  \E q \in Requests, r \in Requests :
    /\ q < r /\ Built(q) /\ Built(r) /\ now < stdTTL
    /\ SameTripleOf(req[q], req[r]) /\ data[q] = data[r]
    /\ Len(calls[q]) >= 1 /\ Len(calls[r]) >= 1
    /\ resp[q] = resp[r]
    /\ CachedFor(cache, req[r]) = {resp[r].body}

====
